---------------------------- MODULE Spec2Model ----------------------------
(***************************************************************************)
(* CsvStringifyStream (csv/csv_stringify_stream.ts): a TransformStream     *)
(* whose start hook emits an optional header chunk and whose transform     *)
(* hook emits one encoded chunk per input item, both through stringify().  *)
(*                                                                         *)
(* The model holds the two hooks, the constructor's destructuring of the   *)
(* options, and the part of the TransformStream the hooks act on: the      *)
(* readable side's queue and pending read requests, the writable side's    *)
(* queue of written items, and the backpressure flag between them.         *)
(* History variables (emitted, delivered, calls, thrown, ...) record what  *)
(* the hooks did; the program does not read them.                          *)
(***************************************************************************)
EXTENDS Integers, Sequences, FiniteSets, TLC

(***************************************************************************)
(* Bounds of the model.                                                    *)
(***************************************************************************)
\* Items the producer writes in one run.
MaxItems == 3
\* read() calls the consumer makes in one run.
MaxReads == 5
\* write() calls the producer makes on a stream that no longer accepts them.
MaxRejected == 1

(***************************************************************************)
(* Values                                                                  *)
(***************************************************************************)
\* JavaScript's undefined, for an option that is not supplied.
Undefined == "undefined"

\* A value stringify cannot encode (an illegal value type).
BadValue == "<illegal>"

COMMA == ","
QUOTE == "\""
CRLF == "\r\n"
LF == "\n"

\* Positional rows (arrays of values) the producer may write.
ArrayItems ==
    { [kind |-> "array", values |-> <<"1">>],
      [kind |-> "array", values |-> <<"2", "1">>],
      [kind |-> "array", values |-> <<BadValue>>] }

\* Keyed records the producer may write; the last lacks property b.
RecordItems ==
    { [kind |-> "record", fields |-> [a |-> "1", b |-> "2"]],
      [kind |-> "record", fields |-> [a |-> "2", b |-> BadValue]],
      [kind |-> "record", fields |-> [a |-> "a"]] }

\* The columns lists a configuration may carry.
ColumnLists == { <<>>, <<"a">>, <<"a", "b">> }

\* The separators a configuration may carry; QUOTE is one stringify rejects.
Separators == { ";", QUOTE }

\* The item type of the stream: records when columns is an Array<string>,
\* arrays otherwise.
ItemsFor(cols) == IF Len(cols) > 0 THEN RecordItems ELSE ArrayItems

\* An optional property: supplied with a value, or not supplied.
Maybe(S, d) ==
    { [present |-> TRUE, value |-> v] : v \in S }
        \cup { [present |-> FALSE, value |-> d] }

\* The arguments a caller may construct the stream with: an options object
\* with any of its three optional properties, or no options object.
OptionObjects ==
    [ supplied  : {TRUE},
      separator : Maybe(Separators, Undefined),
      columns   : Maybe(ColumnLists, <<>>),
      crlf      : Maybe(BOOLEAN, FALSE) ]
    \cup
    { [ supplied  |-> FALSE,
        separator |-> [present |-> FALSE, value |-> Undefined],
        columns   |-> [present |-> FALSE, value |-> <<>>],
        crlf      |-> [present |-> FALSE, value |-> FALSE] ] }

(***************************************************************************)
(* Errors                                                                  *)
(***************************************************************************)
NoError == [name |-> "none", message |-> ""]

StringifyError(msg) == [name |-> "StringifyError", message |-> msg]

\* The TypeError controller.enqueue throws when the readable side can no
\* longer be enqueued to.
EnqueueTypeError == [name |-> "TypeError", message |-> "not enqueuable"]

\* The reasons a producer may abort with and a consumer may cancel with.
AbortReason == [name |-> "AbortError", message |-> "producer aborted"]
CancelReason == [name |-> "CancelError", message |-> "consumer cancelled"]

(***************************************************************************)
(* stringify (csv/stringify.ts), the record encoder                        *)
(***************************************************************************)
Ok(text) == [ok |-> TRUE, text |-> text, error |-> NoError]
Fail(error) == [ok |-> FALSE, text |-> <<>>, error |-> error]

\* values joined by the separator, as a sequence of text pieces.
RECURSIVE Join(_, _)
Join(values, sep) ==
    IF Len(values) = 0 THEN <<>>
    ELSE IF Len(values) = 1 THEN <<values[1]>>
    ELSE <<values[1], sep>> \o Join(Tail(values), sep)

\* The values of one row: the array's own values when no columns are given,
\* the row's property for each column otherwise.
RowShapeOk(row, cols) ==
    IF Len(cols) = 0
    THEN row.kind = "array"
    ELSE /\ row.kind = "record"
         /\ \A i \in 1..Len(cols) : cols[i] \in DOMAIN row.fields

RowValues(row, cols) ==
    IF Len(cols) = 0
    THEN row.values
    ELSE [i \in 1..Len(cols) |-> row.fields[cols[i]]]

\* One encoded line, or the error the row raises.
EncodeRow(row, cols, sep, eol) ==
    IF ~RowShapeOk(row, cols)
    THEN Fail(StringifyError("inconsistent row shape"))
    ELSE IF \E i \in 1..Len(RowValues(row, cols)) :
                RowValues(row, cols)[i] = BadValue
    THEN Fail(StringifyError("illegal value type"))
    ELSE Ok(Join(RowValues(row, cols), sep) \o <<eol>>)

RECURSIVE EncodeRows(_, _, _, _)
EncodeRows(rows, cols, sep, eol) ==
    IF Len(rows) = 0 THEN Ok(<<>>)
    ELSE LET first == EncodeRow(rows[1], cols, sep, eol)
             rest  == EncodeRows(Tail(rows), cols, sep, eol)
         IN  IF ~first.ok THEN first
             ELSE IF ~rest.ok THEN rest
             ELSE Ok(first.text \o rest.text)

\* stringify(rows, {separator, headers, columns, crlf}).
stringify(rows, opts) ==
    LET sep  == IF opts.separator = Undefined THEN COMMA ELSE opts.separator
        cols == IF opts.columns.present THEN opts.columns.value ELSE <<>>
        eol  == IF opts.crlf THEN CRLF ELSE LF
        head == IF opts.headers THEN Join(cols, sep) \o <<eol>> ELSE <<>>
        body == EncodeRows(rows, cols, sep, eol)
    IN  IF sep = QUOTE \/ sep = CRLF
        THEN Fail(StringifyError("illegal separator"))
        ELSE IF ~body.ok THEN body
        ELSE Ok(head \o body.text)

(***************************************************************************)
(* State                                                                   *)
(***************************************************************************)
VARIABLES
    options,        \* the constructor's argument
    separator,      \* the constructor's const separator
    columns,        \* the constructor's const columns
    crlf,           \* the constructor's const crlf
    pc,             \* "start": super() is about to call start; "running"
    written,        \* the items the writable side accepted, in order
    processed,      \* how many of them were handed to the transform hook
    wstate,         \* writable side: writable, closing, closed, errored
    writableError,  \* the writable side's stored error
    rstate,         \* readable side: readable, closing, closed, errored
    storedError,    \* the readable side's stored error
    rqueue,         \* the readable side's queue of chunks
    readRequests,   \* pending read() calls of the consumer
    backpressure,   \* the TransformStream's backpressure flag
    emitted,        \* history: every chunk passed to controller.enqueue
    delivered,      \* history: what the consumer's read() calls settled with
    calls,          \* history: every call of stringify
    thrown,         \* history: the first error stringify raised
    errorCalls,     \* history: every error passed to controller.error
    rejected        \* history: write() calls that were refused

config == <<options, separator, columns, crlf>>
writable == <<written, processed, wstate, writableError>>
readable == <<rstate, storedError, rqueue, readRequests>>
history == <<emitted, delivered, calls, thrown, errorCalls, rejected>>
vars == <<config, pc, writable, readable, backpressure, history>>

\* A chunk, and what a read() call can settle with besides a chunk.
Chunk(kind, text, item) ==
    [kind |-> kind, text |-> text, item |-> item, error |-> NoError]
ErrorSeen(e) == [kind |-> "error", text |-> <<>>, item |-> 0, error |-> e]
DoneSeen == [kind |-> "done", text |-> <<>>, item |-> 0, error |-> NoError]

\* n copies of x.
Repeat(x, n) == [i \in 1..n |-> x]

(***************************************************************************)
(* The constructor's destructuring of options ?? {}                        *)
(***************************************************************************)
SeparatorOf(o) ==
    IF o.supplied /\ o.separator.present THEN o.separator.value ELSE Undefined

ColumnsOf(o) ==
    IF o.supplied /\ o.columns.present THEN o.columns.value ELSE <<>>

\* Fault: crlf = false as the default.
CrlfOfDefaultLf(o) ==
    IF o.supplied /\ o.crlf.present THEN o.crlf.value ELSE FALSE

CrlfOf(o) ==
    IF o.supplied /\ o.crlf.present THEN o.crlf.value ELSE TRUE

Init ==
    /\ options \in OptionObjects
    /\ separator = SeparatorOf(options)
    /\ columns = ColumnsOf(options)
    /\ crlf = CrlfOf(options)
    /\ pc = "start"
    /\ written = <<>>
    /\ processed = 0
    /\ wstate = "writable"
    /\ writableError = NoError
    /\ rstate = "readable"
    /\ storedError = NoError
    /\ rqueue = <<>>
    /\ readRequests = 0
    /\ backpressure = TRUE
    /\ emitted = <<>>
    /\ delivered = <<>>
    /\ calls = <<>>
    /\ thrown = NoError
    /\ errorCalls = <<>>
    /\ rejected = 0

(***************************************************************************)
(* The TransformStream's controller                                        *)
(***************************************************************************)
\* Fault: the pending read() calls are not counted as demand.
ShouldCallPullBySizeOnly(queue, requests) ==
    0 - Len(queue) > 0

\* The readable side asks for more: a read() is pending, or its queue is
\* below its high-water mark, which super() leaves at the default of 0.
ShouldCallPull(queue, requests) ==
    requests > 0 \/ 0 - Len(queue) > 0

\* controller.enqueue throws unless the readable side is readable and no
\* close was requested.
CanEnqueue == rstate = "readable"

\* controller.enqueue(chunk) on a readable side that can take it: a pending
\* read() takes the chunk, the queue otherwise; then the backpressure flag
\* is set from the readable side's demand.
ControllerEnqueue(chunk) ==
    /\ emitted' = Append(emitted, chunk)
    /\ IF readRequests > 0
       THEN /\ delivered' = Append(delivered, chunk)
            /\ readRequests' = readRequests - 1
            /\ rqueue' = rqueue
       ELSE /\ rqueue' = Append(rqueue, chunk)
            /\ UNCHANGED <<delivered, readRequests>>
    /\ backpressure' = ~ShouldCallPull(rqueue', readRequests')
    /\ UNCHANGED <<rstate, storedError, wstate, writableError, errorCalls>>

\* The stream errors with e: the readable side drops its queue and rejects
\* the pending reads, the writable side errors, a blocked write is released.
ErrorStream(e) ==
    /\ IF rstate \in {"readable", "closing"}
       THEN /\ rstate' = "errored"
            /\ storedError' = e
            /\ rqueue' = <<>>
            /\ delivered' = delivered \o Repeat(ErrorSeen(e), readRequests)
            /\ readRequests' = 0
       ELSE UNCHANGED <<rstate, storedError, rqueue, delivered, readRequests>>
    /\ IF wstate \in {"writable", "closing"}
       THEN /\ wstate' = "errored"
            /\ writableError' = e
       ELSE UNCHANGED <<wstate, writableError>>
    /\ backpressure' = FALSE

\* controller.error(e), called by a hook.
ControllerError(e) ==
    /\ ErrorStream(e)
    /\ errorCalls' = Append(errorCalls, e)
    /\ UNCHANGED emitted

(***************************************************************************)
(* The transformer's hooks                                                 *)
(***************************************************************************)
\* Fault: the header call leaves the header decision to the encoder.
HeaderOptionsHeadersOn ==
    [ separator |-> separator,
      headers   |-> TRUE,
      columns   |-> [present |-> FALSE, value |-> <<>>],
      crlf      |-> crlf ]

\* Fault: the per-item call asks the encoder for a header line as well.
ItemOptionsHeadersOn ==
    [ separator |-> separator,
      headers   |-> TRUE,
      columns   |-> [present |-> TRUE, value |-> columns],
      crlf      |-> crlf ]

\* stringify([columns], { separator, headers: false, crlf })
HeaderRows == << [kind |-> "array", values |-> columns] >>

HeaderOptions ==
    [ separator |-> separator,
      headers   |-> FALSE,
      columns   |-> [present |-> FALSE, value |-> <<>>],
      crlf      |-> crlf ]

\* Fault: the per-item call leaves columns out when the list is empty.
ItemOptionsColumnsIfAny ==
    [ separator |-> separator,
      headers   |-> FALSE,
      columns   |-> [present |-> Len(columns) > 0, value |-> columns],
      crlf      |-> crlf ]

\* stringify([chunk], { separator, headers: false, columns, crlf })
ItemRows(chunk) == << chunk >>

ItemOptions ==
    [ separator |-> separator,
      headers   |-> FALSE,
      columns   |-> [present |-> TRUE, value |-> columns],
      crlf      |-> crlf ]

\* Fault: the catch block wraps the error in a new one.
CaughtWrapped(error) ==
    [name |-> "Error", message |-> "stringify failed: " \o error.message]

\* catch (error) { controller.error(error) }: the value handed on.
Caught(error) == error

\* Fault: the catch block swallows the error and the stream goes on.
TryEnqueueSwallowing(result, kind, item) ==
    /\ thrown' = IF ~result.ok /\ thrown = NoError THEN result.error ELSE thrown
    /\ IF result.ok /\ rstate = "readable"
       THEN ControllerEnqueue(Chunk(kind, result.text, item))
       ELSE UNCHANGED <<emitted, delivered, readRequests, rqueue,
                        backpressure, rstate, storedError, wstate,
                        writableError, errorCalls>>

\* Fault: the catch block emits an empty chunk before it signals the error.
TryEnqueueFallbackChunk(result, kind, item) ==
    /\ thrown' = IF ~result.ok /\ thrown = NoError THEN result.error ELSE thrown
    /\ IF result.ok /\ rstate = "readable"
       THEN ControllerEnqueue(Chunk(kind, result.text, item))
       ELSE /\ emitted' = Append(emitted, Chunk(kind, <<>>, item))
            /\ ErrorStream(result.error)
            /\ errorCalls' = Append(errorCalls, result.error)

\* Fault: only the stringify call is inside the try block; what enqueue
\* throws leaves the hook, and the stream errors with it without a
\* controller.error call of the hook.
TryEnqueueOutsideTry(result, kind, item) ==
    /\ thrown' = IF ~result.ok /\ thrown = NoError THEN result.error ELSE thrown
    /\ IF result.ok /\ rstate = "readable"
       THEN ControllerEnqueue(Chunk(kind, result.text, item))
       ELSE IF result.ok
       THEN ErrorStream(EnqueueTypeError) /\ UNCHANGED <<emitted, errorCalls>>
       ELSE /\ ErrorStream(result.error)
            /\ errorCalls' = Append(errorCalls, result.error)
            /\ UNCHANGED emitted

\* try { controller.enqueue(<result>) } catch (error) { controller.error(error) }
\* where result is what the stringify call returned or raised.
TryEnqueue(result, kind, item) ==
    /\ thrown' = IF ~result.ok /\ thrown = NoError THEN result.error ELSE thrown
    /\ IF result.ok /\ CanEnqueue
       THEN ControllerEnqueue(Chunk(kind, result.text, item))
       ELSE ControllerError(
                Caught(IF result.ok THEN EnqueueTypeError ELSE result.error))

\* Fault: if (columns), which an empty array passes.
HasColumnsTruthy == TRUE

\* Fault: if (columns.length > 1).
HasColumnsOffByOne == Len(columns) > 1

\* if (columns && columns.length > 0)
HasColumns == Len(columns) > 0

\* start(controller), called once by super().
Start ==
    /\ pc = "start"
    /\ pc' = "running"
    /\ IF HasColumns
       THEN /\ calls' = Append(calls,
                           [rows |-> HeaderRows, opts |-> HeaderOptions])
            /\ TryEnqueue(stringify(HeaderRows, HeaderOptions), "header", 0)
       ELSE UNCHANGED <<calls, thrown, emitted, delivered, readRequests,
                        rqueue, backpressure, rstate, storedError, wstate,
                        writableError, errorCalls>>
    /\ UNCHANGED <<config, written, processed, rejected>>

\* Fault: the hook is called without waiting for the readable side's demand.
CanTransformIgnoringBackpressure ==
    /\ pc = "running"
    /\ wstate \in {"writable", "closing"}
    /\ processed < Len(written)

\* Fault: the hook is still called after the stream has errored.
CanTransformWhenErrored ==
    /\ pc = "running"
    /\ processed < Len(written)
    /\ ~backpressure

\* Fault: the hook is called with the newest written item, not the oldest.
NextItemNewest == Len(written)

\* The writable side hands the transform hook the next written item once
\* the stream has started, is not errored, and backpressure is off.
CanTransform ==
    /\ pc = "running"
    /\ wstate \in {"writable", "closing"}
    /\ processed < Len(written)
    /\ ~backpressure

\* The written item the transform hook is called with next.
NextItem == processed + 1

\* Fault: the hook drops a column it has written, columns.shift().
TransformConsumingColumns ==
    /\ CanTransform
    /\ processed' = processed + 1
    /\ calls' = Append(calls, [rows |-> ItemRows(written[NextItem]),
                               opts |-> ItemOptions])
    /\ TryEnqueue(stringify(ItemRows(written[NextItem]), ItemOptions),
                  "data", NextItem)
    /\ columns' = IF Len(columns) > 1 THEN Tail(columns) ELSE columns
    /\ UNCHANGED <<options, separator, crlf, pc, written, rejected>>

\* transform(chunk, controller), with chunk the next written item.
Transform ==
    /\ CanTransform
    /\ processed' = processed + 1
    /\ calls' = Append(calls, [rows |-> ItemRows(written[NextItem]),
                               opts |-> ItemOptions])
    /\ TryEnqueue(stringify(ItemRows(written[NextItem]), ItemOptions),
                  "data", NextItem)
    /\ UNCHANGED <<config, pc, written, rejected>>

(***************************************************************************)
(* The producer, on the writable side                                      *)
(***************************************************************************)
\* writer.write(item) on a writable stream: the item is queued.
Write(item) ==
    /\ pc = "running"
    /\ wstate = "writable"
    /\ Len(written) < MaxItems
    /\ written' = Append(written, item)
    /\ UNCHANGED <<config, pc, processed, wstate, writableError, readable,
                   backpressure, history>>

\* writer.write(item) on a closing, closed or errored stream: refused.
WriteRejected ==
    /\ pc = "running"
    /\ wstate # "writable"
    /\ rejected < MaxRejected
    /\ rejected' = rejected + 1
    /\ UNCHANGED <<config, pc, writable, readable, backpressure, emitted,
                   delivered, calls, thrown, errorCalls>>

\* writer.close(): no more items; the queued ones are still processed.
Close ==
    /\ pc = "running"
    /\ wstate = "writable"
    /\ wstate' = "closing"
    /\ UNCHANGED <<config, pc, written, processed, writableError, readable,
                   backpressure, history>>

\* Fault: a flush hook that ends the output with an empty line.
SinkCloseWithFlush ==
    /\ pc = "running"
    /\ wstate = "closing"
    /\ processed = Len(written)
    /\ wstate' = "closed"
    /\ emitted' = Append(emitted, Chunk("data", <<CRLF>>, processed + 1))
    /\ IF rstate = "readable"
       THEN /\ rstate' = "closing"
            /\ rqueue' = Append(rqueue, Chunk("data", <<CRLF>>, processed + 1))
       ELSE UNCHANGED <<rstate, rqueue>>
    /\ UNCHANGED <<config, pc, written, processed, writableError,
                   storedError, readRequests, delivered, backpressure, calls,
                   thrown, errorCalls, rejected>>

\* The writable side's close, after the last queued item: the transformer
\* has no flush hook, so the readable side is closed, at once when its queue
\* is empty and after the queued chunks are read otherwise.
SinkClose ==
    /\ pc = "running"
    /\ wstate = "closing"
    /\ processed = Len(written)
    /\ wstate' = "closed"
    /\ IF rstate = "readable"
       THEN IF Len(rqueue) = 0
            THEN /\ rstate' = "closed"
                 /\ delivered' = delivered \o Repeat(DoneSeen, readRequests)
                 /\ readRequests' = 0
            ELSE /\ rstate' = "closing"
                 /\ UNCHANGED <<delivered, readRequests>>
       ELSE UNCHANGED <<rstate, delivered, readRequests>>
    /\ UNCHANGED <<config, pc, written, processed, writableError,
                   storedError, rqueue, backpressure, emitted, calls, thrown,
                   errorCalls, rejected>>

\* writer.abort(reason): the stream errors with the reason.
Abort ==
    /\ pc = "running"
    /\ wstate \in {"writable", "closing"}
    /\ ErrorStream(AbortReason)
    /\ UNCHANGED <<config, pc, written, processed, emitted, calls, thrown,
                   errorCalls, rejected>>

(***************************************************************************)
(* The consumer, on the readable side                                      *)
(***************************************************************************)
\* reader.read(): takes the queue's first chunk; with an empty queue it
\* waits and pulls, which turns backpressure off; on a closed or errored
\* stream it settles at once.
Read ==
    /\ pc = "running"
    /\ Len(delivered) + readRequests < MaxReads
    /\ CASE rstate \in {"readable", "closing"} /\ Len(rqueue) > 0 ->
              /\ delivered' = Append(delivered, Head(rqueue))
              /\ rqueue' = Tail(rqueue)
              /\ rstate' = IF rstate = "closing" /\ Len(rqueue) = 1
                           THEN "closed" ELSE rstate
              /\ backpressure' =
                    IF rstate = "readable" /\ ShouldCallPull(rqueue', readRequests)
                    THEN FALSE ELSE backpressure
              /\ UNCHANGED readRequests
         [] rstate = "readable" /\ Len(rqueue) = 0 ->
              /\ readRequests' = readRequests + 1
              /\ backpressure' =
                    IF ShouldCallPull(rqueue, readRequests')
                    THEN FALSE ELSE backpressure
              /\ UNCHANGED <<delivered, rqueue, rstate>>
         [] rstate = "closed" ->
              /\ delivered' = Append(delivered, DoneSeen)
              /\ UNCHANGED <<rqueue, rstate, readRequests, backpressure>>
         [] rstate = "errored" ->
              /\ delivered' = Append(delivered, ErrorSeen(storedError))
              /\ UNCHANGED <<rqueue, rstate, readRequests, backpressure>>
    /\ UNCHANGED <<config, pc, writable, storedError, emitted, calls, thrown,
                   errorCalls, rejected>>

\* reader.cancel(reason): the readable side closes and drops its queue, the
\* writable side errors with the reason.
Cancel ==
    /\ pc = "running"
    /\ rstate \in {"readable", "closing"}
    /\ rstate' = "closed"
    /\ rqueue' = <<>>
    /\ delivered' = delivered \o Repeat(DoneSeen, readRequests)
    /\ readRequests' = 0
    /\ IF wstate \in {"writable", "closing"}
       THEN /\ wstate' = "errored"
            /\ writableError' = CancelReason
       ELSE UNCHANGED <<wstate, writableError>>
    /\ backpressure' = FALSE
    /\ UNCHANGED <<config, pc, written, processed, storedError, emitted,
                   calls, thrown, errorCalls, rejected>>

Next ==
    \/ Start
    \/ Transform
    \/ \E item \in ItemsFor(columns) : Write(item)
    \/ WriteRejected
    \/ Close
    \/ SinkClose
    \/ Abort
    \/ Read
    \/ Cancel

Spec == Init /\ [][Next]_vars

(***************************************************************************)
(* Derived views of the history                                            *)
(***************************************************************************)
\* The entries of a sequence that satisfy a test, in order.
RECURSIVE SelectKinds(_, _)
SelectKinds(seq, kinds) ==
    IF Len(seq) = 0 THEN <<>>
    ELSE (IF Head(seq).kind \in kinds THEN <<Head(seq)>> ELSE <<>>)
            \o SelectKinds(Tail(seq), kinds)

\* The data chunks emitted, and the chunks the consumer received.
DataChunks == SelectKinds(emitted, {"data"})
DeliveredChunks == SelectKinds(delivered, {"header", "data"})

\* 1 when the configuration asks for a header chunk, 0 otherwise.
HeaderExpected == IF Len(columns) > 0 THEN 1 ELSE 0

\* The stringify calls that raised, and the first of them.
FailedCalls ==
    { i \in 1..Len(calls) : ~stringify(calls[i].rows, calls[i].opts).ok }

FirstFailedCall ==
    IF FailedCalls = {} THEN 0
    ELSE CHOOSE i \in FailedCalls : \A j \in FailedCalls : i <= j

\* The header call failed; item k's call failed (k = FailedItem).
HeaderFailed == HeaderExpected = 1 /\ FirstFailedCall = 1
FailedItem ==
    IF FirstFailedCall = 0 THEN 0 ELSE FirstFailedCall - HeaderExpected

\* The encodings the claims compare the chunks with, written out from the
\* configuration: the header row without a columns option, an item with it.
ExpectedHeader ==
    stringify(<< [kind |-> "array", values |-> columns] >>,
              [ separator |-> separator, headers |-> FALSE,
                columns |-> [present |-> FALSE, value |-> <<>>],
                crlf |-> crlf ])

ExpectedItem(item) ==
    stringify(<< item >>,
              [ separator |-> separator, headers |-> FALSE,
                columns |-> [present |-> TRUE, value |-> columns],
                crlf |-> crlf ])

(***************************************************************************)
(* C1: with a non-empty columns list at most one header chunk is produced; *)
(* it is the first chunk emitted (and the first the consumer receives),    *)
(* its text is stringify([columns], {separator, headers: false, crlf}),    *)
(* and no later chunk is a header.                                         *)
(***************************************************************************)
C1_HeaderOnceAndFirst ==
    Len(columns) > 0 =>
        /\ \A i \in 1..Len(emitted) : (emitted[i].kind = "header") <=> (i = 1)
        /\ \A i \in 1..Len(delivered) : delivered[i].kind = "header" => i = 1
        /\ Len(emitted) > 0 =>
              /\ ExpectedHeader.ok
              /\ emitted[1].text = ExpectedHeader.text

C1_Witness ==
    /\ Len(columns) > 0
    /\ Len(emitted) >= 3
    /\ Len(DeliveredChunks) >= 2
    /\ emitted[1].kind = "header"

(***************************************************************************)
(* C2 as stated: with an empty columns list start emits nothing and makes  *)
(* no stringify call, no header chunk is ever emitted, and the number of   *)
(* chunks equals the number of input items handed to the transform.        *)
(***************************************************************************)
C2_AsStated ==
    Len(columns) = 0 =>
        /\ \A i \in 1..Len(emitted) : emitted[i].kind # "header"
        /\ Len(calls) = processed
        /\ Len(emitted) = processed

(***************************************************************************)
(* C2 amended: with an empty columns list start emits nothing and makes no *)
(* stringify call, no header chunk is ever emitted, and the number of      *)
(* chunks equals the number of input items handed to the transform as long *)
(* as stringify raised on none of them; when it raised on item k there are *)
(* k-1 chunks.  A stream closed without failure has one chunk per item     *)
(* written.                                                                *)
(***************************************************************************)
C2_NoHeaderWithoutColumns ==
    Len(columns) = 0 =>
        /\ \A i \in 1..Len(emitted) : emitted[i].kind # "header"
        /\ pc = "running" /\ processed = 0 => calls = <<>> /\ emitted = <<>>
        /\ Len(calls) = processed
        /\ thrown = NoError => Len(emitted) = processed
        /\ thrown # NoError => Len(emitted) = FailedItem - 1
        /\ thrown = NoError /\ wstate = "closed" => Len(emitted) = Len(written)

C2_Witness ==
    /\ Len(columns) = 0
    /\ thrown = NoError
    /\ wstate = "closed"
    /\ Len(written) = 2
    /\ Len(emitted) = 2

(***************************************************************************)
(* C3: order preservation.  While stringify has raised on no call, the     *)
(* k-th data chunk emitted is the encoding of the k-th item written, there *)
(* is exactly one data chunk per item handed to the transform, and the     *)
(* chunks the consumer received are the first chunks emitted, in order.    *)
(***************************************************************************)
C3_OrderPreserved ==
    thrown = NoError =>
        /\ Len(DataChunks) = processed
        /\ \A k \in 1..Len(DataChunks) :
              /\ DataChunks[k].item = k
              /\ ExpectedItem(written[k]).ok
              /\ DataChunks[k].text = ExpectedItem(written[k]).text
        /\ Len(DeliveredChunks) <= Len(emitted)
        /\ DeliveredChunks = SubSeq(emitted, 1, Len(DeliveredChunks))

C3_Witness ==
    /\ thrown = NoError
    /\ processed = 3
    /\ Len(DataChunks) = 3
    /\ written[1] # written[2]
    /\ DataChunks[1].text # DataChunks[2].text
    /\ Len(DeliveredChunks) >= 3

(***************************************************************************)
(* C4: an input sequence of N items (N = 0 included) processed without a   *)
(* stringify failure yields N+1 chunks when columns is non-empty and N     *)
(* chunks when it is empty: at every point one chunk per item handed to    *)
(* the transform plus the header, and N (+1) once the stream has closed.   *)
(***************************************************************************)
C4_ChunkCount ==
    thrown = NoError /\ pc = "running" =>
        /\ Len(emitted) = processed + HeaderExpected
        /\ wstate = "closed" => Len(emitted) = Len(written) + HeaderExpected

C4_Witness ==
    /\ thrown = NoError
    /\ wstate = "closed"
    /\ Len(columns) = 1
    /\ Len(written) = 2
    /\ Len(emitted) = 3

\* N = 0: a closed stream that was given no item.
C4_WitnessEmptyInput ==
    /\ thrown = NoError
    /\ wstate = "closed"
    /\ Len(columns) > 0
    /\ Len(written) = 0
    /\ Len(emitted) = 1

(***************************************************************************)
(* C5: when stringify raises on item k the stream is errored at once,      *)
(* exactly k-1 chunks (k with a header) have been emitted, and no chunk    *)
(* for item k or a later item is ever emitted.                             *)
(***************************************************************************)
C5_ItemFailureStops ==
    FailedItem >= 1 =>
        /\ rstate = "errored"
        /\ wstate = "errored"
        /\ processed = FailedItem
        /\ Len(calls) = FirstFailedCall
        /\ Len(emitted) = FailedItem - 1 + HeaderExpected
        /\ \A i \in 1..Len(emitted) : emitted[i].item < FailedItem

C5_Witness ==
    /\ FailedItem = 2
    /\ Len(written) = 3
    /\ HeaderExpected = 1
    /\ Len(emitted) = 2
    /\ rstate = "errored"

(***************************************************************************)
(* C6: when the header's stringify call raises in start, the stream is     *)
(* errored at once and no chunk, header or data, is ever produced; items   *)
(* supplied afterwards are refused and never reach the transform hook.     *)
(***************************************************************************)
C6_HeaderFailureStops ==
    HeaderFailed =>
        /\ rstate = "errored"
        /\ wstate = "errored"
        /\ emitted = <<>>
        /\ rqueue = <<>>
        /\ written = <<>>
        /\ processed = 0
        /\ Len(calls) = 1
        /\ \A i \in 1..Len(delivered) : delivered[i].kind = "error"

C6_Witness ==
    /\ HeaderFailed
    /\ rejected > 0
    /\ Len(delivered) > 0
    /\ emitted = <<>>

(***************************************************************************)
(* C7: when stringify raises, for the header or for an item, the error the *)
(* consumer observes is that very error: it is the stream's stored error   *)
(* on both sides, every failed read() carries it, controller.error was     *)
(* called once, with it, and the failed call was the last one (no retry).  *)
(***************************************************************************)
C7_ErrorVerbatim ==
    thrown # NoError =>
        /\ thrown = stringify(calls[FirstFailedCall].rows,
                              calls[FirstFailedCall].opts).error
        /\ storedError = thrown
        /\ writableError = thrown
        /\ errorCalls = <<thrown>>
        /\ FirstFailedCall = Len(calls)
        /\ \A i \in 1..Len(delivered) :
              delivered[i].kind = "error" => delivered[i].error = thrown

C7_Witness ==
    /\ thrown # NoError
    /\ FailedItem >= 1
    /\ \E i \in 1..Len(delivered) :
          delivered[i].kind = "error" /\ delivered[i].error = thrown

(***************************************************************************)
(* C8: when stringify raises, the chunks emitted before it are not rolled  *)
(* back: the consumer has received every one of them, in order, and what   *)
(* it observes after them is the error, that is, at the position of the    *)
(* failing item (or of the header).                                        *)
(***************************************************************************)
C8_EmittedChunksKept ==
    thrown # NoError =>
        /\ Len(delivered) >= Len(emitted)
        /\ SubSeq(delivered, 1, Len(emitted)) = emitted
        /\ \A i \in (Len(emitted) + 1)..Len(delivered) :
              delivered[i] = ErrorSeen(thrown)
        /\ Len(emitted) = FailedItem - 1 + HeaderExpected

C8_Witness ==
    /\ thrown # NoError
    /\ Len(emitted) = 2
    /\ Len(delivered) = 3
    /\ delivered[1].kind = "header"
    /\ delivered[3] = ErrorSeen(thrown)

(***************************************************************************)
(* C9: the error state is terminal.  Once a side of the stream is errored, *)
(* every later step leaves it errored, accepts no item, hands the          *)
(* transform hook no item, calls stringify no more and emits no chunk.     *)
(***************************************************************************)
InErrorState == rstate = "errored" \/ wstate = "errored"

C9_ErrorStateTerminal ==
    [][ InErrorState =>
          /\ rstate = "errored" => rstate' = "errored"
          /\ wstate = "errored" => wstate' = "errored"
          /\ storedError' = storedError
          /\ written' = written
          /\ processed' = processed
          /\ calls' = calls
          /\ emitted' = emitted ]_vars

C9_Witness ==
    /\ rstate = "errored"
    /\ wstate = "errored"
    /\ thrown # NoError
    /\ processed < Len(written)
    /\ rejected > 0
    /\ readRequests = 0
    /\ \E i \in 1..Len(delivered) : delivered[i].kind = "error"

(***************************************************************************)
(* C10: every stringify call the hooks make, in start or per item, passes  *)
(* exactly one row and headers: false.                                     *)
(***************************************************************************)
C10_OneRowNoHeaders ==
    \A i \in 1..Len(calls) :
        /\ Len(calls[i].rows) = 1
        /\ calls[i].opts.headers = FALSE

C10_Witness ==
    /\ Len(calls) >= 3
    /\ calls[1].rows = << [kind |-> "array", values |-> columns] >>
    /\ calls[2].rows = << written[1] >>

(***************************************************************************)
(* C11: the chunk sequence and the terminal outcome are a function of the  *)
(* configuration and of the items handed to the transform, whatever the    *)
(* producer's and the consumer's timing: RunOf computes them from these    *)
(* alone, so two instances with the same configuration and the same input  *)
(* sequence emit the same chunks and end with the same error or none.      *)
(***************************************************************************)
RECURSIVE ItemRun(_, _, _, _, _)
ItemRun(sep, cols, cr, items, k) ==
    IF k > Len(items) THEN [chunks |-> <<>>, error |-> NoError]
    ELSE LET r == stringify(<< items[k] >>,
                            [ separator |-> sep, headers |-> FALSE,
                              columns |-> [present |-> TRUE, value |-> cols],
                              crlf |-> cr ])
             rest == ItemRun(sep, cols, cr, items, k + 1)
         IN  IF ~r.ok THEN [chunks |-> <<>>, error |-> r.error]
             ELSE [ chunks |-> << Chunk("data", r.text, k) >> \o rest.chunks,
                    error  |-> rest.error ]

RunOf(sep, cols, cr, items) ==
    LET h == stringify(<< [kind |-> "array", values |-> cols] >>,
                       [ separator |-> sep, headers |-> FALSE,
                         columns |-> [present |-> FALSE, value |-> <<>>],
                         crlf |-> cr ])
        body == ItemRun(sep, cols, cr, items, 1)
    IN  IF Len(cols) = 0 THEN body
        ELSE IF ~h.ok THEN [chunks |-> <<>>, error |-> h.error]
        ELSE [ chunks |-> << Chunk("header", h.text, 0) >> \o body.chunks,
               error  |-> body.error ]

C11_RunDetermined ==
    pc = "running" =>
        /\ [chunks |-> emitted, error |-> thrown]
              = RunOf(separator, columns, crlf, SubSeq(written, 1, processed))
        /\ wstate = "closed" =>
              [chunks |-> emitted, error |-> NoError]
                  = RunOf(separator, columns, crlf, written)
        /\ thrown # NoError => storedError = thrown /\ rstate = "errored"

\* Three items were written before the first was processed, and the run
\* then went on to a failure after two chunks.
C11_Witness ==
    /\ Len(written) = 3
    /\ processed = 3
    /\ Len(emitted) = 2
    /\ thrown # NoError
    /\ written[1] # written[2]

(***************************************************************************)
(* C12: construction defaults.  Without a crlf option every stringify call *)
(* gets crlf = true; without a columns option, or without an options       *)
(* object, columns is the empty list (no header call, and the per-item     *)
(* calls pass the empty list); without a separator option every call gets  *)
(* separator undefined, so that stringify's default applies.               *)
(***************************************************************************)
Supplied(name) == options.supplied /\ options[name].present

C12_Defaults ==
    /\ ~Supplied("crlf") =>
          /\ crlf = TRUE
          /\ \A i \in 1..Len(calls) : calls[i].opts.crlf = TRUE
    /\ ~Supplied("columns") =>
          /\ columns = <<>>
          /\ \A i \in 1..Len(calls) :
                /\ calls[i].opts.columns = [present |-> TRUE, value |-> <<>>]
                /\ calls[i].rows = << written[i] >>
    /\ ~Supplied("separator") =>
          /\ separator = Undefined
          /\ \A i \in 1..Len(calls) : calls[i].opts.separator = Undefined
    /\ Supplied("crlf") => crlf = options.crlf.value
    /\ Supplied("columns") => columns = options.columns.value
    /\ Supplied("separator") => separator = options.separator.value

C12_Witness ==
    /\ ~options.supplied
    /\ Len(calls) = 2
    /\ Len(emitted) = 2
    /\ emitted[2].text = <<"2", COMMA, "1", CRLF>>

(***************************************************************************)
(* C13 as stated: the header state goes from "not yet emitted" to          *)
(* "emitted" on the first processed item, if and only if columns is        *)
(* non-empty.                                                              *)
(***************************************************************************)
HeaderEmitted == \E i \in 1..Len(emitted) : emitted[i].kind = "header"

C13_AsStated ==
    /\ HeaderEmitted => processed >= 1
    /\ processed >= 1 => (HeaderEmitted <=> Len(columns) > 0)

(***************************************************************************)
(* C13 amended: the header state goes from "not yet emitted" to "emitted"  *)
(* in the start step, before any item is processed, if and only if columns *)
(* is non-empty and the header's stringify call succeeds; it never changes *)
(* back.                                                                   *)
(***************************************************************************)
C13_HeaderEmittedAtStart ==
    /\ pc = "start" => ~HeaderEmitted
    /\ pc = "running" =>
          (HeaderEmitted <=> (Len(columns) > 0 /\ ExpectedHeader.ok))

\* The header was emitted and the stream closed without any item.
C13_Witness ==
    /\ HeaderEmitted
    /\ processed = 0
    /\ written = <<>>
    /\ wstate = "closed"

(***************************************************************************)
(* C14: the per-item stringify call gets the one-row batch [item] and the  *)
(* options {separator, headers: false, columns, crlf} with the configured  *)
(* values, columns included even when it is empty; the header call gets    *)
(* [columns] and {separator, headers: false, crlf}, without columns.       *)
(***************************************************************************)
C14_CallArguments ==
    \A i \in 1..Len(calls) :
        IF HeaderExpected = 1 /\ i = 1
        THEN /\ calls[i].rows = << [kind |-> "array", values |-> columns] >>
             /\ calls[i].opts =
                   [ separator |-> separator, headers |-> FALSE,
                     columns |-> [present |-> FALSE, value |-> <<>>],
                     crlf |-> crlf ]
        ELSE /\ calls[i].rows = << written[i - HeaderExpected] >>
             /\ calls[i].opts =
                   [ separator |-> separator, headers |-> FALSE,
                     columns |-> [present |-> TRUE, value |-> columns],
                     crlf |-> crlf ]

\* Per-item calls with an empty columns list, which is passed all the same.
C14_Witness ==
    /\ columns = <<>>
    /\ Len(calls) = 2
    /\ calls[2].opts.columns = [present |-> TRUE, value |-> <<>>]
    /\ calls[2].rows = << written[2] >>

\* A header call followed by a per-item call.
C14_WitnessHeaderCall ==
    /\ Len(columns) = 2
    /\ Len(calls) = 2
    /\ ~calls[1].opts.columns.present
    /\ calls[2].opts.columns.value = columns

(***************************************************************************)
(* C16: backpressure.  While the consumer is not ready (no read() is       *)
(* pending) or a chunk is still waiting in the readable queue, no item is  *)
(* handed to the transform hook: a step that processes an item starts      *)
(* from an empty queue with a read() pending.  So at most one chunk, the   *)
(* header, ever waits in the queue, and it blocks the items behind it.     *)
(***************************************************************************)
ConsumerReady == rqueue = <<>> /\ readRequests > 0

\* The states in which the next item can be processed are states in which
\* the consumer is ready.
PausedWhileNotReady ==
    /\ Len(rqueue) <= 1
    /\ CanTransform => ConsumerReady
    /\ (rqueue # <<>> /\ wstate \in {"writable", "closing"}) => backpressure

C16_BackpressureHonored ==
    /\ []PausedWhileNotReady
    /\ [][ processed' # processed => ConsumerReady ]_vars

\* An item is written and waits because the header has not been taken.
C16_Witness ==
    /\ Len(rqueue) = 1
    /\ backpressure
    /\ wstate = "writable"
    /\ processed = 0
    /\ Len(written) = 2

(***************************************************************************)
(* C17: the configuration is read-only after construction.  No step, of    *)
(* start, of transform, or one that errors the stream, changes options,    *)
(* separator, columns or crlf, and every stringify call carries the values *)
(* the constructor took from the options.                                  *)
(***************************************************************************)
C17_ConfigurationReadOnly ==
    /\ [][ /\ options' = options
           /\ separator' = separator
           /\ columns' = columns
           /\ crlf' = crlf ]_vars
    /\ [](\A i \in 1..Len(calls) :
            /\ calls[i].opts.separator = SeparatorOf(options)
            /\ calls[i].opts.crlf = CrlfOf(options)
            /\ calls[i].opts.columns.present =>
                  calls[i].opts.columns.value = ColumnsOf(options))

\* A start step, two per-item steps and an error step have been taken.
C17_Witness ==
    /\ Len(columns) = 2
    /\ Len(calls) = 3
    /\ thrown # NoError
    /\ rstate = "errored"
    /\ columns = options.columns.value

(***************************************************************************)
(* C19: the transformer has no flush hook.  Closing the stream after the   *)
(* last item emits no chunk and makes no stringify call, so in a run       *)
(* without failure the number of stringify calls is the number of items    *)
(* processed, plus one when columns is non-empty, also once it is closed.  *)
(***************************************************************************)
C19_NoFlushStep ==
    /\ thrown = NoError /\ pc = "running" =>
          Len(calls) = processed + HeaderExpected
    /\ wstate = "closed" =>
          /\ thrown = NoError
          /\ Len(calls) = Len(written) + HeaderExpected
          /\ Len(emitted) = Len(written) + HeaderExpected
          /\ \A i \in 1..Len(emitted) : emitted[i].item <= Len(written)

C19_Witness ==
    /\ wstate = "closed"
    /\ rstate = "closed"
    /\ Len(written) = 2
    /\ Len(calls) = 3
    /\ Len(emitted) = 3
    /\ delivered[Len(delivered)] = DoneSeen

(***************************************************************************)
(* The hooks step by step                                                  *)
(*                                                                         *)
(* SpecSteps takes each hook in two steps, the stringify call being made   *)
(* and the hook returning with its enqueue or error, so that a call in     *)
(* progress is a state.  The hooks are synchronous: the producer and the   *)
(* consumer run only between hook invocations.                             *)
(***************************************************************************)
\* stringify calls made whose hook has not yet enqueued or signalled.
CallsInProgress == Len(calls) - Len(emitted) - Len(errorCalls)

\* No hook is running: other code gets to run.
Quiet == CallsInProgress = 0

\* Fault: the writable side starts a write while one is in flight.
CanCallTransformUnserialized == CanTransform

\* The writable side starts the next write, and with it the transform hook,
\* only when no write is in flight.
CanCallTransform == CanTransform /\ CallsInProgress = 0

\* start is entered: the header's stringify call is made.
StartCall ==
    /\ pc = "start"
    /\ pc' = "in start"
    /\ calls' = IF HasColumns
                THEN Append(calls, [rows |-> HeaderRows, opts |-> HeaderOptions])
                ELSE calls
    /\ UNCHANGED <<config, writable, readable, backpressure, emitted,
                   delivered, thrown, errorCalls, rejected>>

\* start returns: the header is enqueued, or the error signalled.
StartReturn ==
    /\ pc = "in start"
    /\ pc' = "running"
    /\ IF HasColumns
       THEN TryEnqueue(stringify(HeaderRows, HeaderOptions), "header", 0)
       ELSE UNCHANGED <<thrown, emitted, delivered, readRequests, rqueue,
                        backpressure, rstate, storedError, wstate,
                        writableError, errorCalls>>
    /\ UNCHANGED <<config, written, processed, calls, rejected>>

\* transform is entered with the next written item: stringify is called.
TransformCall ==
    /\ CanCallTransform
    /\ processed' = processed + 1
    /\ calls' = Append(calls, [rows |-> ItemRows(written[NextItem]),
                               opts |-> ItemOptions])
    /\ UNCHANGED <<config, pc, written, wstate, writableError, readable,
                   backpressure, emitted, delivered, thrown, errorCalls,
                   rejected>>

\* transform returns: the chunk is enqueued, or the error signalled.
TransformReturn ==
    /\ pc = "running"
    /\ CallsInProgress > 0
    /\ TryEnqueue(stringify(calls[Len(calls)].rows, calls[Len(calls)].opts),
                  "data", processed)
    /\ UNCHANGED <<config, pc, written, processed, calls, rejected>>

NextSteps ==
    \/ StartCall
    \/ StartReturn
    \/ TransformCall
    \/ TransformReturn
    \/ Quiet /\ \E item \in ItemsFor(columns) : Write(item)
    \/ Quiet /\ WriteRejected
    \/ Quiet /\ Close
    \/ Quiet /\ SinkClose
    \/ Quiet /\ Abort
    \/ Quiet /\ Read
    \/ Quiet /\ Cancel

SpecSteps == Init /\ [][NextSteps]_vars

(***************************************************************************)
(* C15: start is invoked once and has returned before any item is          *)
(* processed, and each hook invocation returns before the next begins: in  *)
(* no reachable state are two stringify calls of the instance in progress. *)
(***************************************************************************)
C15_HooksSerialized ==
    /\ [](CallsInProgress \in {0, 1})
    /\ [](pc # "running" => processed = 0 /\ written = <<>>)
    /\ [](\A i \in 2..Len(calls) : calls[i].opts.columns.present)
    /\ [][ pc # "start" => pc' # "start" ]_vars
    /\ [][ processed' # processed =>
              pc = "running" /\ CallsInProgress = 0 ]_vars

\* The second item's stringify call is in progress while a third waits.
C15_Witness ==
    /\ pc = "running"
    /\ CallsInProgress = 1
    /\ processed = 2
    /\ Len(written) = 3
    /\ Len(calls) = 3

(***************************************************************************)
(* Fair scheduling: the writable side goes on processing queued items and  *)
(* the consumer goes on reading.  The runs are those of a stream built     *)
(* with all three options given; the producer's refused writes, which      *)
(* change no state of the stream, are left out.                            *)
(***************************************************************************)
FairInit ==
    /\ Init
    /\ options.supplied
    /\ options.separator.present
    /\ options.columns.present
    /\ options.crlf.present

FairNext ==
    \/ Start
    \/ Transform
    \/ \E item \in ItemsFor(columns) : Write(item)
    \/ Close
    \/ SinkClose
    \/ Abort
    \/ Read
    \/ Cancel

FairSpec ==
    FairInit /\ [][FairNext]_vars /\ WF_vars(Transform) /\ WF_vars(Read)

(***************************************************************************)
(* C18: the stream errors only through a stringify failure (or because     *)
(* the producer aborted it), never on the hooks' own account; and while    *)
(* stringify does not fail, under fair scheduling every item written is    *)
(* eventually processed and yields exactly one chunk, unless the producer  *)
(* aborts or the consumer cancels first: again and again, every item       *)
(* written so far has its one chunk.                                       *)
(***************************************************************************)
Interrupted == writableError \in {AbortReason, CancelReason}

ChunksOfItem(k) == { i \in 1..Len(emitted) : emitted[i].item = k }

C18_ErrorsOnlyFromEncoder ==
    /\ [](errorCalls # <<>> => thrown # NoError /\ errorCalls = <<thrown>>)
    /\ [](rstate = "errored" =>
            /\ storedError # NoError
            /\ storedError \in {thrown, AbortReason})
    /\ [](thrown = NoError =>
            \A k \in 1..processed : Cardinality(ChunksOfItem(k)) = 1)
    /\ []<>(\/ \A k \in 1..Len(written) : Cardinality(ChunksOfItem(k)) = 1
            \/ thrown # NoError
            \/ Interrupted)

\* All three written items have their chunk and nothing has failed.
C18_Witness ==
    /\ thrown = NoError
    /\ ~Interrupted
    /\ errorCalls = <<>>
    /\ Len(written) = 3
    /\ \A k \in 1..3 : Cardinality(ChunksOfItem(k)) = 1

(***************************************************************************)
(* A cancel whose effect on the writable side is deferred                  *)
(*                                                                         *)
(* Newer versions of the Streams standard close the readable side at once  *)
(* on reader.cancel() and error the writable side in a later microtask.    *)
(* In between the writable side still accepts and processes items, and     *)
(* controller.enqueue throws.  SpecLate adds this cancel to the steps of   *)
(* Spec.                                                                   *)
(***************************************************************************)
\* reader.cancel(reason), first part: the readable side closes.
CancelBegin ==
    /\ pc = "running"
    /\ rstate \in {"readable", "closing"}
    /\ wstate \in {"writable", "closing"}
    /\ rstate' = "closed"
    /\ rqueue' = <<>>
    /\ delivered' = delivered \o Repeat(DoneSeen, readRequests)
    /\ readRequests' = 0
    /\ UNCHANGED <<config, pc, writable, storedError, backpressure, emitted,
                   calls, thrown, errorCalls, rejected>>

\* reader.cancel(reason), second part: the writable side, unless it has
\* closed or errored meanwhile, errors with the reason.
CancelFinish ==
    /\ pc = "running"
    /\ rstate = "closed"
    /\ wstate \in {"writable", "closing"}
    /\ wstate' = "errored"
    /\ writableError' = CancelReason
    /\ backpressure' = FALSE
    /\ UNCHANGED <<config, pc, written, processed, readable, history>>

NextLate ==
    \/ Start
    \/ Transform
    \/ \E item \in ItemsFor(columns) : Write(item)
    \/ WriteRejected
    \/ Close
    \/ SinkClose
    \/ Abort
    \/ Read
    \/ Cancel
    \/ CancelBegin
    \/ CancelFinish

SpecLate == Init /\ [][NextLate]_vars

(***************************************************************************)
(* C20: the stream's error is set once and never changes: by the first     *)
(* stringify failure when there is one.  The try block covers the enqueue  *)
(* call too, so when enqueue throws the hook still returns normally and    *)
(* hands the TypeError to controller.error: every stringify call ends in   *)
(* an enqueued chunk or in a controller.error call, and an error already   *)
(* stored is not replaced.                                                 *)
(***************************************************************************)
\* The hook invocations in which controller.enqueue threw.
EmitFailures == { i \in 1..Len(errorCalls) : errorCalls[i] = EnqueueTypeError }

=============================================================================
